---- MODULE Spec2Model ----
(***************************************************************************)
(* Model of the numerical core of src/main.py: the order search            *)
(* reverse_bound, the Chebychev engine (compute_chebychev_pol,             *)
(* compute_chebychev_coeff_all, expm_multiply, get_diffusion_fun) and the  *)
(* Krylov approximator art_expm.                                           *)
(*                                                                         *)
(* Real numbers are exact rationals <<num, den>> with den > 0, in lowest   *)
(* terms.  Dense matrices are sequences of rows of rationals.              *)
(***************************************************************************)
EXTENDS Integers, Sequences, FiniteSets, TLC

(***************************************************************************)
(* Bounds of the model.                                                    *)
(***************************************************************************)
MaxK == 8          \* the bound function f is tabulated on 1..MaxK
FTop == 1          \* f takes its values in 0..FTop, the target error in 0..FTop-1
MaxC2 == 6         \* reverse_bound alone: C = tau*phi/2 ranges over 0, 1/2, .., MaxC2/2
MaxOrder == 3      \* explicit orders K range over 0..MaxOrder
MaxTaus == 2       \* a list or array of times has at most MaxTaus entries
MaxEvals == 2      \* calls of the function returned by get_diffusion_fun that are followed
MaxM == 3          \* art_expm: the Krylov dimension m ranges over 1..MaxM
MaxA == 3          \* art_expm: the 1 x 1 operator A = [[a]] has a in -1..MaxA
MaxDen == 200      \* art_expm: a remaining time t is followed while its denominator is <= MaxDen

\* K=None (src/main.py 444, 481)
None == -1

(***************************************************************************)
(* Exact rational arithmetic.                                              *)
(***************************************************************************)
Abs(n) == IF n < 0 THEN -n ELSE n

RECURSIVE Gcd(_, _)
Gcd(a, b) == IF b = 0 THEN a ELSE Gcd(b, a % b)

\* p = <<n, d>> with d # 0, brought to lowest terms with a positive denominator
Norm(p) ==
    LET sg == IF p[2] < 0 THEN -1 ELSE 1
        gg == Gcd(Abs(p[1]), Abs(p[2]))
    IN  <<(sg * p[1]) \div gg, (sg * p[2]) \div gg>>

\* Op(a, b) with a and b evaluated once each
Once2(a, b, Op(_, _)) == CHOOSE r \in {Op(p[1], p[2]) : p \in {<<a, b>>}} : TRUE

Rat(n, d) == Once2(n, d, LAMBDA x, y : Norm(<<x, y>>))
RInt(n) == <<n, 1>>
RAdd(a, b) ==
    Once2(a, b, LAMBDA x, y :
        Norm(<<x[1] * (y[2] \div Gcd(x[2], y[2])) + y[1] * (x[2] \div Gcd(x[2], y[2])),
               (x[2] \div Gcd(x[2], y[2])) * y[2]>>))
RNeg(a) == Once2(a, a, LAMBDA x, y : <<-x[1], x[2]>>)
RSub(a, b) == RAdd(a, RNeg(b))
RMul(a, b) == Once2(a, b, LAMBDA x, y : Norm(<<x[1] * y[1], x[2] * y[2]>>))
RDiv(a, b) == Once2(a, b, LAMBDA x, y : Norm(<<x[1] * y[2], x[2] * y[1]>>))
RLe(a, b) == Once2(a, b, LAMBDA x, y : x[1] * y[2] <= y[1] * x[2])
RLt(a, b) == Once2(a, b, LAMBDA x, y : x[1] * y[2] < y[1] * x[2])
RAbs(a) == Once2(a, a, LAMBDA x, y : <<Abs(x[1]), x[2]>>)
\* Python's int() of a float: truncation towards zero.
RTrunc(a) == IF a[1] >= 0 THEN a[1] \div a[2] ELSE -((-a[1]) \div a[2])

Max2(a, b) == IF a >= b THEN a ELSE b

(***************************************************************************)
(* State.                                                                  *)
(***************************************************************************)
VARIABLES
    f,        \* the bound function handed to reverse_bound: [val, raises]
    err,      \* target error of the search
    C,        \* tau*phi/2 of the search (a rational)
    rb,       \* frame of reverse_bound: pc, K_min, K_max, returned K, the K's f was evaluated at
    L,        \* the operator: [mat, lmax]
    X,        \* the signal, an N x d matrix
    tau,      \* the time argument of expm_multiply: [kind, val]
    K_arg,    \* the order argument K: None or an integer
    em,       \* frame of one call of expm_multiply
    h,        \* get_diffusion_fun and the function f it returns: phi, K, poly and its calls
    art_in,   \* the arguments of art_expm: [A, v, t, toler, m]
    art       \* frame of one call of art_expm

vars == <<f, err, C, rb, L, X, tau, K_arg, em, h, art_in, art>>
art_vars == <<art_in, art>>
rb_vars == <<f, err, C, rb>>
cheb_vars == <<L, X, tau, K_arg, em, h>>

(***************************************************************************)
(* reverse_bound (src/main.py 377-400).                                    *)
(* A bound is a record [val |-> table on 1..MaxK, raises |-> BOOLEAN]:     *)
(* raises is the failed assertion of the signal-specific bounds, which     *)
(* does not depend on K.                                                   *)
(***************************************************************************)
\* "assert(K > C-1)" of get_bound_eta_generic (src/main.py 348)
generic_assertion(K, c) == RLt(RSub(c, RInt(1)), RInt(K))

\* the denominator K+1-C of g (src/main.py 337)
g_denominator(K, c) == RSub(RInt(K + 1), c)

\* entry with the search started one order lower
RB_Enter_lower(c) ==
    [pc |-> "step0", K_min |-> Max2(1, RTrunc(c) - 1), K_max |-> 0, ret |-> 0, evals |-> {}]

\* frame on entry: K_min = max(1, int(C)), nothing evaluated yet
RB_Enter(c) ==
    [pc |-> "step0", K_min |-> Max2(1, RTrunc(c)), K_max |-> 0, ret |-> 0, evals |-> {}]

\* Step 0: "if f(K_min) <= err: return K_min", else K_max = 2*K_min
RB_Step0(st, fn, e) ==
    IF fn.raises THEN [st EXCEPT !.pc = "raised"]
    ELSE IF fn.val[st.K_min] <= e
         THEN [st EXCEPT !.pc = "returned", !.ret = st.K_min,
                         !.evals = st.evals \cup {st.K_min}]
         ELSE [st EXCEPT !.pc = "step1", !.K_max = 2 * st.K_min,
                         !.evals = st.evals \cup {st.K_min}]

\* Step 1: one test of "while f(K_max) > err" and, when it holds, the loop body
RB_Step1(st, fn, e) ==
    IF fn.raises THEN [st EXCEPT !.pc = "raised"]
    ELSE IF fn.val[st.K_max] > e
         THEN [st EXCEPT !.K_min = st.K_max, !.K_max = 2 * st.K_max,
                         !.evals = st.evals \cup {st.K_max}]
         ELSE [st EXCEPT !.pc = "step2", !.evals = st.evals \cup {st.K_max}]

\* Step 2 with the two halves of the bisection exchanged
RB_Step2_exchanged(st, fn, e) ==
    IF st.K_max > 1 + st.K_min
    THEN LET K_int == (st.K_max + st.K_min) \div 2
         IN  IF fn.raises THEN [st EXCEPT !.pc = "raised"]
             ELSE IF fn.val[K_int] <= e
                  THEN [st EXCEPT !.K_min = K_int, !.evals = st.evals \cup {K_int}]
                  ELSE [st EXCEPT !.K_max = K_int, !.evals = st.evals \cup {K_int}]
    ELSE [st EXCEPT !.pc = "returned", !.ret = st.K_max]

\* Step 2: one test of "while K_max > 1+K_min" and the loop body, or "return K_max"
RB_Step2(st, fn, e) ==
    IF st.K_max > 1 + st.K_min
    THEN LET K_int == (st.K_max + st.K_min) \div 2
         IN  IF fn.raises THEN [st EXCEPT !.pc = "raised"]
             ELSE IF fn.val[K_int] <= e
                  THEN [st EXCEPT !.K_max = K_int, !.evals = st.evals \cup {K_int}]
                  ELSE [st EXCEPT !.K_min = K_int, !.evals = st.evals \cup {K_int}]
    ELSE [st EXCEPT !.pc = "returned", !.ret = st.K_max]

\* The doubling leaves the tabulated range: the model follows the search no further.
RB_OutOfRange(st) == st.pc = "step1" /\ st.K_max > MaxK


\* One step of reverse_bound from frame st.
RB_Next(st, fn, e) ==
    CASE st.pc = "step0" -> RB_Step0(st, fn, e)
      [] st.pc = "step1" -> RB_Step1(st, fn, e)
      [] st.pc = "step2" -> RB_Step2(st, fn, e)
      [] OTHER -> st

(***************************************************************************)
(* Dense and sparse matrices: sequences of rows of rationals.              *)
(***************************************************************************)
RECURSIVE RSum(_)
RSum(s) == IF s = <<>> THEN RInt(0) ELSE RAdd(s[1], RSum(Tail(s)))

NRows(A) == Len(A)
NCols(A) == Len(A[1])
MInt(A) == [i \in 1..Len(A) |-> [j \in 1..Len(A[i]) |-> RInt(A[i][j])]]
MScale(c, A) == [i \in 1..Len(A) |-> [j \in 1..Len(A[i]) |-> RMul(c, A[i][j])]]
MAdd(A, B) == [i \in 1..Len(A) |-> [j \in 1..Len(A[i]) |-> RAdd(A[i][j], B[i][j])]]
MSub(A, B) == [i \in 1..Len(A) |-> [j \in 1..Len(A[i]) |-> RSub(A[i][j], B[i][j])]]
MZero(A) == [i \in 1..Len(A) |-> [j \in 1..Len(A[i]) |-> RInt(0)]]
\* A @ B
MatMul(A, B) ==
    [i \in 1..NRows(A) |->
        [j \in 1..NCols(B) |-> RSum([k \in 1..NCols(A) |-> RMul(A[i][k], B[k][j])])]]
\* np.sum(x): the sum of all the entries
RECURSIVE MSumRows(_)
MSumRows(A) == IF A = <<>> THEN RInt(0) ELSE RAdd(RSum(A[1]), MSumRows(Tail(A)))

(***************************************************************************)
(* The eigenvalue estimate: eigsh(L, k=1, return_eigenvectors=False)[0] is *)
(* the eigenvalue of largest magnitude of L.  The operators of the model   *)
(* carry that eigenvalue with them.                                        *)
(***************************************************************************)
eigsh(Lop) == Lop.lmax

(***************************************************************************)
(* compute_chebychev_pol (src/main.py 428-438).  The result is             *)
(* [T, raised, nprod]: T[k+1] is the source's T[k], raised is the          *)
(* IndexError of writing T[1] into an array of K+1 = 1 terms, and nprod    *)
(* counts the products "L @ dense" that were evaluated.                    *)
(***************************************************************************)
RECURSIVE pol_loop_single(_, _, _, _)
pol_loop_single(acc, Lmat, phi, j) ==
    IF j > Len(acc.T) THEN acc
    ELSE pol_loop_single(
            [acc EXCEPT
                !.T[j] = MSub(MSub(MatMul(MScale(RDiv(RInt(2), phi), Lmat), acc.T[j - 1]),
                                   acc.T[j - 1]),
                              acc.T[j - 2]),
                !.nprod = acc.nprod + 1],
            Lmat, phi, j + 1)

RECURSIVE pol_loop(_, _, _, _)
\* for j in range(2, K + 1): T[j] = (2 / phi) * L @ T[j-1] - 2 * T[j-1] - T[j-2]
\* (acc.T[j] is the source's T[j-1])
pol_loop(acc, Lmat, phi, j) ==
    IF j > Len(acc.T) THEN acc
    ELSE pol_loop(
            [acc EXCEPT
                !.T[j] = MSub(MSub(MatMul(MScale(RDiv(RInt(2), phi), Lmat), acc.T[j - 1]),
                                   MScale(RInt(2), acc.T[j - 1])),
                              acc.T[j - 2]),
                !.nprod = acc.nprod + 1],
            Lmat, phi, j + 1)

compute_chebychev_pol(Xin, Lmat, phi, K) ==
    LET \* T = np.empty((K + 1, N, d)); T[0] = X
        T0 == [k1 \in 1..(K + 1) |-> IF k1 = 1 THEN Xin ELSE MZero(Xin)]
        \* the right-hand side of "T[1] = (1 / phi) * L @ X - T[0]"
        T1 == MSub(MatMul(MScale(RDiv(RInt(1), phi), Lmat), Xin), T0[1])
    IN  IF Len(T0) < 2
        THEN [T |-> T0, raised |-> TRUE, nprod |-> 1]
        ELSE pol_loop([T |-> [T0 EXCEPT ![2] = T1], raised |-> FALSE, nprod |-> 1],
                      Lmat, phi, 3)

(***************************************************************************)
(* compute_chebychev_coeff_all (src/main.py 440-442):                      *)
(* 2*ive(np.arange(0, K+1), -tau*phi).  scipy's ive(k, z) is               *)
(* I_k(z)*exp(-|z|); the model puts in its place the leading term          *)
(* (z/2)^k / k! of the series of I_k, which has the value of ive at        *)
(* z = 0 (1 for k = 0, else 0) and depends on k and z elsewhere.           *)
(***************************************************************************)
RECURSIVE ive(_, _)
ive(k, z) == IF k = 0 THEN RInt(1) ELSE RMul(ive(k - 1, z), RDiv(z, RInt(2 * k)))

compute_chebychev_coeff_all(phi, t, K) ==
    [k1 \in 1..(K + 1) |-> RMul(RInt(2), ive(k1 - 1, RMul(RNeg(t), phi)))]

\* the array "-tau*phi" broadcast against np.arange(0, K+1) when tau is an
\* ndarray of K+1 entries: coefficient k is evaluated at tau[k]
coeff_broadcast(phi, ts, K) ==
    [k1 \in 1..(K + 1) |-> RMul(RInt(2), ive(k1 - 1, RMul(RNeg(ts[k1]), phi)))]

\* Y = .5 * coeff[0] * poly[0] + (poly[1:].T @ coeff[1:]).T
RECURSIVE lin_tail(_, _, _)
lin_tail(coeff, poly, k1) ==
    IF k1 > Len(poly) THEN MZero(poly[1])
    ELSE MAdd(MScale(coeff[k1], poly[k1]), lin_tail(coeff, poly, k1 + 1))

linear_combination(coeff, poly) ==
    MAdd(MScale(RMul(Rat(1, 2), coeff[1]), poly[1]), lin_tail(coeff, poly, 2))

\* reverse_bound run to its end (or to the end of the tabulated range)
RECURSIVE RB_Run(_, _, _)
RB_Run(st, fn, e) ==
    IF st.pc \in {"returned", "raised"} \/ RB_OutOfRange(st) THEN st
    ELSE RB_Run(RB_Next(st, fn, e), fn, e)

reverse_bound(fn, c, e) == RB_Run(RB_Enter(c), fn, e)

(***************************************************************************)
(* get_bound_eta_specific (src/main.py 351-356): assert(a1 != 0.) with     *)
(* a1 = np.sum(x), then g(K,C)**2 * n * ||x||**2 / a1**2.  g(K, 0) = 0     *)
(* (the factor C**(K+1)); for C > 0 the values are those of the table gt.  *)
(***************************************************************************)
get_bound_eta_specific_unchecked(x, c, gt) ==
    [raises |-> FALSE,
     val |-> IF c = RInt(0) THEN [k \in 1..MaxK |-> 0] ELSE gt]

get_bound_eta_specific(x, c, gt) ==
    [raises |-> (MSumRows(x) = RInt(0)),
     val |-> IF c = RInt(0) THEN [k \in 1..MaxK |-> 0] ELSE gt]

(***************************************************************************)
(* The time arguments.  kind is "scalar" (a Python float or int), "list",  *)
(* "ndarray" (one-dimensional) or "tuple" (a container that is none of     *)
(* these); val is the sequence of the time values.  The code never reads   *)
(* the entries of a container of another type, so tuples of length <= 1    *)
(* stand for all of them.                                                  *)
(***************************************************************************)
TauVals == {RInt(0), RInt(1), RInt(2)}
TauSeqs == UNION {[1..n -> TauVals] : n \in 0..MaxTaus}
TauArgs ==
    {[kind |-> "scalar", val |-> <<t>>] : t \in TauVals}
    \cup [kind : {"list", "ndarray"}, val : TauSeqs]
    \cup {[kind |-> "tuple", val |-> s] : s \in {<<>>} \cup [1..1 -> TauVals]}

RECURSIVE SeqMax(_)
SeqMax(s) == IF Len(s) = 1 THEN s[1]
             ELSE LET m == SeqMax(Tail(s)) IN IF RLe(m, s[1]) THEN s[1] ELSE m

(***************************************************************************)
(* expm_multiply (src/main.py 444-479), one step at a time.                *)
(***************************************************************************)
EM_Enter ==
    [pc |-> "eigsh", phi |-> RInt(0), K |-> None, poly |-> <<>>, coeff_list |-> <<>>,
     out |-> [kind |-> "none", val |-> <<>>], log |-> <<>>, nprod |-> 0, error |-> "none"]

\* phi = eigsh(L, k=1, return_eigenvectors=False)[0] / 2
em_eigsh(st, Lop) ==
    [st EXCEPT !.pc = "order", !.phi = RDiv(eigsh(Lop), RInt(2)),
               !.log = Append(st.log, "eigsh")]

\* K = reverse_bound(get_bound_eta_specific, phi, X, tau or max(tau), err)
em_search(st, Xin, t, gt, e) ==
    IF t.val = <<>>
    THEN \* max(tau), np.amax(tau) of an empty sequence
         [st EXCEPT !.pc = "raised", !.error = "ValueError"]
    ELSE LET c == RDiv(RMul(SeqMax(t.val), st.phi), RInt(2))
             r == reverse_bound(get_bound_eta_specific(Xin, c, gt), c, e)
         IN  IF r.pc = "raised"
             THEN [st EXCEPT !.pc = "raised", !.error = "AssertionError",
                             !.log = Append(st.log, "reverse_bound")]
             ELSE IF r.pc = "returned"
             THEN [st EXCEPT !.pc = "pol", !.K = r.ret,
                             !.log = Append(st.log, "reverse_bound")]
             ELSE [st EXCEPT !.pc = "searching", !.log = Append(st.log, "reverse_bound")]

em_order_searches(st, Xin, t, Karg, gt, e) ==
    IF t.kind \notin {"scalar", "list", "ndarray"}
    THEN [st EXCEPT !.pc = "returned", !.out = [kind |-> "None", val |-> <<>>]]
    ELSE em_search(st, Xin, t, gt, e)

\* the isinstance dispatch and "if K is None: K = reverse_bound(...)"
em_order(st, Xin, t, Karg, gt, e) ==
    IF t.kind \notin {"scalar", "list", "ndarray"}
    THEN \* print(...): the call returns None
         [st EXCEPT !.pc = "returned", !.out = [kind |-> "None", val |-> <<>>]]
    ELSE IF Karg # None
    THEN [st EXCEPT !.pc = "pol", !.K = Karg]
    ELSE em_search(st, Xin, t, gt, e)

\* poly = compute_chebychev_pol(X, L, phi, K)
em_pol(st, Xin, Lop) ==
    LET r == compute_chebychev_pol(Xin, Lop.mat, st.phi, st.K)
    IN  IF r.raised
        THEN [st EXCEPT !.pc = "raised", !.error = "IndexError",
                        !.nprod = st.nprod + r.nprod,
                        !.log = Append(st.log, "compute_chebychev_pol")]
        ELSE [st EXCEPT !.pc = "coeff", !.poly = r.T, !.nprod = st.nprod + r.nprod,
                        !.log = Append(st.log, "compute_chebychev_pol")]

\* the next compute_chebychev_coeff_all(phi, t, K), for the next t of tau
em_coeff(st, t) ==
    LET i == Len(st.coeff_list) + 1
    IN  [st EXCEPT !.coeff_list = Append(st.coeff_list,
                                         compute_chebychev_coeff_all(st.phi, t.val[i], st.K)),
                   !.log = Append(st.log, "compute_chebychev_coeff_all")]

\* the linear combinations and the return
em_return(st, t) ==
    LET Ys == [i \in 1..Len(st.coeff_list) |->
                   linear_combination(st.coeff_list[i], st.poly)]
    IN  [st EXCEPT !.pc = "returned",
                   !.out = IF t.kind = "scalar" THEN [kind |-> "matrix", val |-> Ys[1]]
                           ELSE [kind |-> t.kind, val |-> Ys]]

EM_Next(st, Lop, Xin, t, Karg, gt, e) ==
    CASE st.pc = "eigsh" -> em_eigsh(st, Lop)
      [] st.pc = "order" -> em_order(st, Xin, t, Karg, gt, e)
      [] st.pc = "pol" -> em_pol(st, Xin, Lop)
      [] st.pc = "coeff" /\ Len(st.coeff_list) < Len(t.val) -> em_coeff(st, t)
      [] st.pc = "coeff" /\ Len(st.coeff_list) = Len(t.val) -> em_return(st, t)
      [] OTHER -> st

RECURSIVE EM_Run(_, _, _, _, _, _, _)
EM_Run(st, Lop, Xin, t, Karg, gt, e) ==
    IF st.pc \in {"returned", "raised", "searching"} THEN st
    ELSE EM_Run(EM_Next(st, Lop, Xin, t, Karg, gt, e), Lop, Xin, t, Karg, gt, e)

\* the whole call
expm_multiply(Lop, Xin, t, Karg, gt, e) == EM_Run(EM_Enter, Lop, Xin, t, Karg, gt, e)

(***************************************************************************)
(* get_diffusion_fun (src/main.py 481-495) and the function f it returns.  *)
(***************************************************************************)
GDF_Enter ==
    [pc |-> "eigsh", phi |-> RInt(0), K |-> None, poly |-> <<>>, nprod |-> 0,
     n_eval |-> 0, last_tau |-> [kind |-> "none", val |-> <<>>],
     last_out |-> [kind |-> "none", val |-> <<>>], error |-> "none"]

\* "if K is None: K = K_base" (K_base is defined nowhere: NameError), then phi
gdf_eigsh(st, Lop, Karg) ==
    IF Karg = None
    THEN [st EXCEPT !.pc = "raised", !.error = "NameError"]
    ELSE [st EXCEPT !.pc = "pol", !.K = Karg, !.phi = RDiv(eigsh(Lop), RInt(2))]

\* poly = compute_chebychev_pol(X, L, phi, K); return f
gdf_pol(st, Xin, Lop) ==
    LET r == compute_chebychev_pol(Xin, Lop.mat, st.phi, st.K)
    IN  IF r.raised
        THEN [st EXCEPT !.pc = "raised", !.error = "IndexError",
                        !.nprod = st.nprod + r.nprod]
        ELSE [st EXCEPT !.pc = "ready", !.poly = r.T, !.nprod = st.nprod + r.nprod]

\* f(tau): coeff = compute_chebychev_coeff_all(phi, tau, K), then the combination.
\* "-tau" of a list or tuple is a TypeError; an ndarray of n entries is broadcast
\* against np.arange(0, K+1): n = 1 and n = K+1 give one matrix, any other n a
\* ValueError.
f_result(st, t) ==
    LET n == Len(t.val)
    IN  IF t.kind = "scalar"
        THEN [kind |-> "matrix",
              val |-> linear_combination(
                          compute_chebychev_coeff_all(st.phi, t.val[1], st.K), st.poly)]
        ELSE IF t.kind \in {"list", "tuple"}
        THEN [kind |-> "TypeError", val |-> <<>>]
        ELSE IF n = 1
        THEN [kind |-> "matrix",
              val |-> linear_combination(
                          compute_chebychev_coeff_all(st.phi, t.val[1], st.K), st.poly)]
        ELSE IF n = st.K + 1
        THEN [kind |-> "matrix",
              val |-> linear_combination(coeff_broadcast(st.phi, t.val, st.K), st.poly)]
        ELSE [kind |-> "ValueError", val |-> <<>>]

\* f with the combination accumulated in place into poly[0]
f_call_inplace(st, t) ==
    LET res == f_result(st, t)
    IN  [st EXCEPT !.n_eval = st.n_eval + 1, !.last_tau = t, !.last_out = res,
                   !.poly[1] = IF res.kind = "matrix" THEN res.val ELSE st.poly[1]]

\* f that builds the basis again on every call
f_call_rebuilds(st, t) ==
    [st EXCEPT !.n_eval = st.n_eval + 1, !.last_tau = t, !.last_out = f_result(st, t),
               !.nprod = st.nprod + st.K]

\* one call f(tau) of the returned function: only the result is new
f_call(st, t) ==
    [st EXCEPT !.n_eval = st.n_eval + 1, !.last_tau = t, !.last_out = f_result(st, t)]

(***************************************************************************)
(* art_expm (src/main.py 228-321) for n = 1: A = [[a]] and v = [x] with    *)
(* x # 0, so that vectors are numbers, norms are absolute values and       *)
(* every quantity is an exact rational.  V and H are the arrays of the     *)
(* source (V[j] is column j, H[<<i, j>>] is H[i,j]); mvec_count, which is  *)
(* only counted, is left out.                                              *)
(*                                                                         *)
(* The small exponentials are kept in closed form.  A vector               *)
(* expm(-s*H[0:d,0:d]) @ e1 is the record [dim |-> d, s |-> s], a matrix   *)
(* expm(-dt*H[0:d,0:d]) the record [dim |-> d, dt |-> dt]; their product   *)
(* adds the times.  The result y is [coef, decay], the number              *)
(* coef*exp(-decay): decay = 0 is coef itself.  expmH is a local name of   *)
(* the function that has no value before the search loop assigns it:       *)
(* dim = 0 is that state, and reading it raises UnboundLocalError.         *)
(***************************************************************************)
ART_Enter(in) ==
    [pc |-> "while", v |-> in.v, t |-> in.t, convergence |-> FALSE,
     beta |-> RInt(0),
     V |-> [i \in 0..in.m |-> RInt(0)],
     H |-> [ij \in (0..in.m) \X (0..(in.m - 1)) |-> RInt(0)],
     j |-> 0, w |-> RInt(0), resnorm |-> RInt(0),
     u |-> [dim |-> 0, s |-> RInt(0)], u_old |-> [dim |-> 0, s |-> RInt(0)],
     n_tsteps |-> 0, k |-> 0, resid_value |-> RInt(0),
     expmH |-> [dim |-> 0, dt |-> RInt(0)],
     y |-> [coef |-> RInt(0), decay |-> RInt(0)], error |-> "none"]

e1(d) == [dim |-> d, s |-> RInt(0)]

\* ej.T @ u for u = expm(-s*H[0:d,0:d]) @ e1: the last entry of u.  With d = 1
\* and H[0,0] = 0 it is exp(0) = 1; at s = 0, u = e1 and it is 1 for d = 1 and
\* 0 for d > 1.
last_entry(u, Hh) ==
    CASE u.dim = 1 /\ Hh[<<0, 0>>] = RInt(0) -> RInt(1)
      [] u.dim > 1 /\ u.s = RInt(0) -> RInt(0)

\* -H[j+1,j] * (ej.T @ u)
residual(u, Hh, j) ==
    IF Hh[<<j + 1, j>>] = RInt(0) THEN RInt(0)
    ELSE RMul(RNeg(Hh[<<j + 1, j>>]), last_entry(u, Hh))

RMaxAbs(S) == CHOOSE r \in S : \A q \in S : RLe(RAbs(q), RAbs(r))

\* "for i in range(j): H[i,j] = w.T @ V[:,i]; w = w - H[i,j]*V[:,i]", from i on
RECURSIVE gram_schmidt(_, _, _, _, _)
gram_schmidt(w, Hh, Vv, j, i) ==
    IF i >= j THEN [w |-> w, H |-> Hh]
    ELSE LET hij == RMul(w, Vv[i])
         IN  gram_schmidt(RSub(w, RMul(hij, Vv[i])), [Hh EXCEPT ![<<i, j>>] = hij],
                          Vv, j, i + 1)

\* "while not convergence": beta, V[:,0] and the start of "for j in range(m)",
\* or the final y = V[:,0:j+1] @ (beta*u).  For n = 1 the columns are
\* V[0] = +-1 and V[1] = sign(a)*V[0] and H[0,1] = H[1,0] = |a|, so that y is
\* beta*V[0]*exp(-s*a) when dim = 2 and beta*V[0] when dim = 1 (H[0,0] = 0).
art_while(st, in) ==
    IF st.convergence
    THEN [st EXCEPT !.pc = "done",
                    !.y = [coef |-> RMul(st.beta, st.V[0]),
                           decay |-> IF st.u.dim = 1 THEN RInt(0)
                                     ELSE RMul(st.u.s, RInt(in.A))]]
    ELSE [st EXCEPT !.pc = "arnoldi", !.beta = RAbs(st.v),
                    !.V[0] = RDiv(st.v, RAbs(st.v)), !.j = 0]

\* one Arnoldi step: w, column j of H, and the residual norm on the grid s
art_arnoldi(st, in) ==
    LET j == st.j
        gs == gram_schmidt(RMul(RInt(in.A), st.V[j]), st.H, st.V, j, 0)
        Hh == [gs.H EXCEPT ![<<j + 1, j>>] = RAbs(gs.w)]
        s == [q \in 0..5 |-> RDiv(RMul(st.t, RInt(q)), RInt(6))]
        beta_j == [q \in 0..5 |-> residual([dim |-> j + 1, s |-> s[q]], Hh, j)]
    IN  [st EXCEPT !.pc = "check", !.w = gs.w, !.H = Hh,
                   !.u = [dim |-> j + 1, s |-> s[5]],
                   !.resnorm = RAbs(RMaxAbs({beta_j[q] : q \in 0..5}))]

\* the check without its "elif j+1==m" branch
art_check_no_restart(st, in) ==
    IF RLe(st.resnorm, in.toler)
    THEN [st EXCEPT !.pc = "while", !.convergence = TRUE]
    ELSE [st EXCEPT !.pc = "arnoldi", !.V[st.j + 1] = RDiv(st.w, st.H[<<st.j + 1, st.j>>]),
                    !.j = st.j + 1]

\* "if resnorm<=toler: ... elif j+1==m: ..." and "V[:,j+1] = w / H[j+1,j]"
art_check(st, in) ==
    IF RLe(st.resnorm, in.toler)
    THEN [st EXCEPT !.pc = "while", !.convergence = TRUE]
    ELSE IF st.j + 1 = in.m
    THEN [st EXCEPT !.pc = "search", !.n_tsteps = 100, !.u = e1(st.j + 1),
                    !.resid_value = RMul(RInt(2), in.toler)]
    ELSE [st EXCEPT !.pc = "arnoldi", !.V[st.j + 1] = RDiv(st.w, st.H[<<st.j + 1, st.j>>]),
                    !.j = st.j + 1]

\* one test of "while resid_value>toler" and the loop body
art_search(st, in) ==
    IF RLt(in.toler, st.resid_value)
    THEN LET eH == [dim |-> st.j + 1, dt |-> RDiv(st.t, RInt(st.n_tsteps))]
             u1 == [dim |-> st.j + 1, s |-> eH.dt]
             rv == residual(u1, st.H, st.j)
         IN  IF RLe(RAbs(rv), in.toler)
             THEN [st EXCEPT !.pc = "scan", !.k = 0, !.expmH = eH, !.u = e1(st.j + 1),
                             !.resid_value = rv]
             ELSE [st EXCEPT !.expmH = eH, !.u = u1, !.resid_value = rv,
                             !.n_tsteps = 2 * st.n_tsteps]
    ELSE [st EXCEPT !.pc = "scan", !.k = 0]

\* one pass of "for k in range(n_tsteps)", then the break that restarts
art_scan(st, in) ==
    IF st.k >= st.n_tsteps
    THEN [st EXCEPT !.pc = "while"]
    ELSE IF st.expmH.dim = 0
    THEN \* "u = expmH @ u" when the search loop was never entered
         [st EXCEPT !.pc = "raised", !.error = "UnboundLocalError", !.u_old = st.u]
    ELSE LET u1 == [dim |-> st.u.dim, s |-> RAdd(st.u.s, st.expmH.dt)]
             rv == residual(u1, st.H, st.j)
         IN  IF RLt(in.toler, RAbs(rv))
             THEN LET t_ok == RMul(Rat(st.k - 1, st.n_tsteps), st.t)
                      \* y_ok = V[:,0:j+1] @ (beta * u_ok), u_ok = u_old; here dim = 1
                      y_ok == RMul(st.beta, st.V[0])
                  IN  [st EXCEPT !.pc = "while", !.u_old = st.u, !.u = u1,
                                 !.resid_value = rv,
                                 !.t = RSub(st.t, t_ok), !.v = y_ok]
             ELSE [st EXCEPT !.k = st.k + 1, !.u_old = st.u, !.u = u1, !.resid_value = rv]

(***************************************************************************)
(* Inputs of the model.                                                    *)
(***************************************************************************)
\* symmetric positive semi-definite operators with their largest eigenvalue
LOps ==
    { [mat |-> MInt(<< <<1, -1>>, <<-1, 1>> >>), lmax |-> RInt(2)],
      [mat |-> MInt(<< <<3, 0>>, <<0, 1>> >>), lmax |-> RInt(3)],
      [mat |-> MInt(<< <<2, -2>>, <<-2, 2>> >>), lmax |-> RInt(4)] }

\* signals with d = 1 and d = 2 columns, some of them summing to zero
Signals ==
    { MInt(<< <<1>>, <<0>> >>), MInt(<< <<1>>, <<-1>> >>), MInt(<< <<2>>, <<1>> >>),
      MInt(<< <<1, 0>>, <<0, 1>> >>), MInt(<< <<1, -1>>, <<0, 0>> >>) }

\* tables of a bound that is 1 below a threshold order and 0 from it on
StepTable(thr) == [k \in 1..MaxK |-> IF k < thr THEN 1 ELSE 0]

NoTau == [kind |-> "none", val |-> <<>>]
NoBound == [val |-> StepTable(1), raises |-> FALSE]
Off == [pc |-> "off"]

IdleRB_but_f == err = 0 /\ C = RInt(0) /\ rb = Off
IdleRB == f = NoBound /\ IdleRB_but_f
IdleCheb ==
    /\ L = [mat |-> <<>>, lmax |-> RInt(0)] /\ X = <<>> /\ tau = NoTau /\ K_arg = None
    /\ em = Off /\ h = Off
IdleArt == art_in = Off /\ art = Off

(***************************************************************************)
(* reverse_bound on its own, for every bound function on 1..MaxK.          *)
(***************************************************************************)
InitRB ==
    /\ f \in [val : [1..MaxK -> 0..FTop], raises : {FALSE}]
    /\ err \in 0..(FTop - 1)
    /\ C \in {Rat(c, 2) : c \in 0..MaxC2}
    /\ rb = RB_Enter(C)
    /\ IdleCheb /\ IdleArt

Step0 ==
    /\ rb.pc = "step0"
    /\ rb' = RB_Step0(rb, f, err)
    /\ UNCHANGED <<f, err, C, cheb_vars, art_vars>>

Step1 ==
    /\ rb.pc = "step1"
    /\ ~RB_OutOfRange(rb)
    /\ rb' = RB_Step1(rb, f, err)
    /\ UNCHANGED <<f, err, C, cheb_vars, art_vars>>

Step2 ==
    /\ rb.pc = "step2"
    /\ rb' = RB_Step2(rb, f, err)
    /\ UNCHANGED <<f, err, C, cheb_vars, art_vars>>

NextRB == Step0 \/ Step1 \/ Step2

SpecRB == InitRB /\ [][NextRB]_vars

(***************************************************************************)
(* The Chebychev engine: one call of expm_multiply, or one call of         *)
(* get_diffusion_fun followed by calls of the function it returns.         *)
(***************************************************************************)
InitCheb ==
    /\ L \in LOps
    /\ X \in Signals
    /\ K_arg \in {None} \cup 0..MaxOrder
    /\ \/ /\ em = EM_Enter /\ h = Off
          /\ tau \in TauArgs
          /\ f \in {[val |-> StepTable(thr), raises |-> FALSE] :
                        thr \in IF K_arg = None THEN 1..MaxOrder ELSE {1}}
       \/ /\ em = Off /\ h = GDF_Enter
          /\ tau = NoTau
          /\ f = NoBound
    /\ IdleRB_but_f
    /\ IdleArt

EM_Eigsh ==
    /\ em.pc = "eigsh"
    /\ em' = em_eigsh(em, L)
    /\ UNCHANGED <<rb_vars, art_vars, L, X, tau, K_arg, h>>

EM_Order ==
    /\ em.pc = "order"
    /\ em' = em_order(em, X, tau, K_arg, f.val, err)
    /\ UNCHANGED <<rb_vars, art_vars, L, X, tau, K_arg, h>>

EM_Pol ==
    /\ em.pc = "pol"
    /\ em' = em_pol(em, X, L)
    /\ UNCHANGED <<rb_vars, art_vars, L, X, tau, K_arg, h>>

EM_Coeff ==
    /\ em.pc = "coeff"
    /\ Len(em.coeff_list) < Len(tau.val)
    /\ em' = em_coeff(em, tau)
    /\ UNCHANGED <<rb_vars, art_vars, L, X, tau, K_arg, h>>

EM_Return ==
    /\ em.pc = "coeff"
    /\ Len(em.coeff_list) = Len(tau.val)
    /\ em' = em_return(em, tau)
    /\ UNCHANGED <<rb_vars, art_vars, L, X, tau, K_arg, h>>

GDF_Eigsh ==
    /\ h.pc = "eigsh"
    /\ h' = gdf_eigsh(h, L, K_arg)
    /\ UNCHANGED <<rb_vars, art_vars, L, X, tau, K_arg, em>>

GDF_Pol ==
    /\ h.pc = "pol"
    /\ h' = gdf_pol(h, X, L)
    /\ UNCHANGED <<rb_vars, art_vars, L, X, tau, K_arg, em>>

F_Call ==
    /\ h.pc = "ready"
    /\ h.n_eval < MaxEvals
    /\ \E t \in TauArgs : h' = f_call(h, t)
    /\ UNCHANGED <<rb_vars, art_vars, L, X, tau, K_arg, em>>

NextCheb ==
    \/ EM_Eigsh \/ EM_Order \/ EM_Pol \/ EM_Coeff \/ EM_Return
    \/ GDF_Eigsh \/ GDF_Pol \/ F_Call

SpecCheb == InitCheb /\ [][NextCheb]_vars

(***************************************************************************)
(* One call of art_expm.  The interpreter always takes the next step of a  *)
(* call that has not returned: weak fairness of the steps.                 *)
(***************************************************************************)
ArtTimes == {RInt(0), RInt(1)}
ArtTolers == {RInt(0), Rat(1, 2), RInt(2)}
ArtVectors == {RInt(-2), RInt(1), RInt(2)}

InitArt ==
    /\ art_in \in [A : -1..MaxA, v : ArtVectors, t : ArtTimes, toler : ArtTolers,
                   m : 1..MaxM]
    /\ art = ART_Enter(art_in)
    /\ IdleRB /\ IdleCheb

ART_While ==
    /\ art.pc = "while"
    /\ art.t[2] <= MaxDen
    /\ art' = art_while(art, art_in)
    /\ UNCHANGED <<rb_vars, cheb_vars, art_in>>

ART_Arnoldi ==
    /\ art.pc = "arnoldi"
    /\ art' = art_arnoldi(art, art_in)
    /\ UNCHANGED <<rb_vars, cheb_vars, art_in>>

ART_Check ==
    /\ art.pc = "check"
    /\ art' = art_check(art, art_in)
    /\ UNCHANGED <<rb_vars, cheb_vars, art_in>>

ART_Search ==
    /\ art.pc = "search"
    /\ art' = art_search(art, art_in)
    /\ UNCHANGED <<rb_vars, cheb_vars, art_in>>

ART_Scan ==
    /\ art.pc = "scan"
    /\ art' = art_scan(art, art_in)
    /\ UNCHANGED <<rb_vars, cheb_vars, art_in>>

NextArt == ART_While \/ ART_Arnoldi \/ ART_Check \/ ART_Search \/ ART_Scan

SpecArt == InitArt /\ [][NextArt]_vars /\ WF_vars(NextArt)

\* both approximation paths: a call of the Chebychev engine or a call of art_expm
InitBoth == InitCheb \/ InitArt
NextBoth == NextCheb \/ NextArt
SpecBothPaths == InitBoth /\ [][NextBoth]_vars /\ WF_vars(NextArt)

(***************************************************************************)
(* Claims about reverse_bound.                                             *)
(***************************************************************************)
NonIncreasing(fn) == \A k \in 1..(MaxK - 1) : fn.val[k + 1] <= fn.val[k]

\* C1: for a bound f non-increasing in K, the K returned by reverse_bound is
\* an integer >= 1 with f(K) <= err that is minimal (K = 1 or f(K-1) > err),
\* also when the starting value max(1, int(C)) exceeds 1 and meets the bound.
C1_ReturnsMinimalK ==
    (rb.pc = "returned" /\ NonIncreasing(f)) =>
        /\ rb.ret >= 1
        /\ f.val[rb.ret] <= err
        /\ (rb.ret = 1 \/ f.val[rb.ret - 1] > err)

\* C2: when the doubling search has passed the maximum K with f above err
\* throughout, it has stopped with an error instead of doubling further.
C2_SearchStopsAtMaximum ==
    (rb.pc # "off" /\ rb.K_max > MaxK) => rb.pc = "raised"

(***************************************************************************)
(* Claims about the Chebychev engine.                                      *)
(***************************************************************************)
Range(s) == {s[i] : i \in 1..Len(s)}
IsPrefix(s, t) == Len(s) <= Len(t) /\ \A i \in 1..Len(s) : s[i] = t[i]
Handled(t) == t.kind \in {"scalar", "list", "ndarray"}
Phi0 == RDiv(eigsh(L), RInt(2))

\* C3: the function returned by get_diffusion_fun(L, X, K), called with a
\* scalar tau after any earlier calls, returns what the one-shot
\* expm_multiply(L, X, tau, K=K) returns.
C3_TwoPhaseEqualsOneShot ==
    (h.pc = "ready" /\ h.n_eval > 0 /\ h.last_tau.kind = "scalar") =>
        LET one == expm_multiply(L, X, h.last_tau, K_arg, f.val, err)
        IN  one.pc = "returned" /\ h.last_out = one.out

C3_Witness ==
    /\ h.pc = "ready" /\ h.n_eval = 2 /\ h.K = 2
    /\ h.last_tau = [kind |-> "scalar", val |-> <<RInt(1)>>]
    /\ h.last_out.kind = "matrix" /\ h.last_out.val # X

\* the calls one call of expm_multiply makes when it runs to its return
ExpectedCalls(t, Karg) ==
    <<"eigsh">>
    \o (IF Karg = None THEN <<"reverse_bound">> ELSE <<>>)
    \o <<"compute_chebychev_pol">>
    \o [i \in 1..Len(t.val) |-> "compute_chebychev_coeff_all"]

\* C4: in a call of expm_multiply with n time values the calls made are, in
\* this order, eigsh once, reverse_bound once iff K was not given,
\* compute_chebychev_pol once, compute_chebychev_coeff_all n times: at every
\* point of the call the calls made so far are a prefix of that sequence, and
\* at the return they are the whole sequence.
C4_CallOrder ==
    (em.pc # "off" /\ Handled(tau)) =>
        /\ IsPrefix(em.log, ExpectedCalls(tau, K_arg))
        /\ em.pc = "returned" => em.log = ExpectedCalls(tau, K_arg)

C4_Witness ==
    /\ em.pc = "returned" /\ K_arg = None /\ tau.kind = "list" /\ Len(tau.val) = 2
    /\ Len(em.log) = 5

\* the reference three-term recurrence on a basis P (P[k+1] is T[k])
Recurrence(P, Lmat, phi, Xin) ==
    /\ P[1] = Xin
    /\ P[2] = MSub(MScale(RDiv(RInt(1), phi), MatMul(Lmat, Xin)), Xin)
    /\ \A k \in 2..(Len(P) - 1) :
          P[k + 1] = MSub(MSub(MScale(RDiv(RInt(2), phi), MatMul(Lmat, P[k])),
                               MScale(RInt(2), P[k])),
                          P[k - 1])

\* C5: for K >= 1 the basis built by compute_chebychev_pol has T[0] = X,
\* T[1] = (1/phi)*L*X - X and T[k] = (2/phi)*L*T[k-1] - 2*T[k-1] - T[k-2]
\* for k in 2..K.
C5_Recurrence ==
    /\ (em.pc \in {"coeff", "returned"} /\ em.poly # <<>>) =>
          (Len(em.poly) = em.K + 1 /\ Recurrence(em.poly, L.mat, em.phi, X))
    /\ h.pc = "ready" =>
          (Len(h.poly) = h.K + 1 /\ Recurrence(h.poly, L.mat, h.phi, X))

C5_Witness ==
    /\ em.pc = "coeff" /\ em.K = 3 /\ L.lmax = RInt(3)
    /\ em.poly[4] # em.poly[2] /\ em.poly[4][2][1][2] # 1

\* C6: for every order K >= 0, K = 0 included, compute_chebychev_pol returns
\* normally a basis of exactly K+1 terms whose term 0 is X.
C6_BasisForEveryOrder ==
    (em.pc # "off" /\ "compute_chebychev_pol" \in Range(em.log)) =>
        /\ em.error # "IndexError"
        /\ Len(em.poly) = em.K + 1
        /\ em.poly[1] = X

\* C7: building the basis of order K >= 1 takes exactly K products of the
\* operator with a dense matrix, whatever the number of columns of X; calls
\* of the function returned by get_diffusion_fun add none and leave the
\* stored basis and phi as they were built.
C7_ProductCount ==
    /\ (em.pc \in {"coeff", "returned"} /\ em.poly # <<>>) => em.nprod = em.K
    /\ h.pc = "ready" =>
          /\ h.nprod = h.K
          /\ h.phi = Phi0
          /\ h.poly = compute_chebychev_pol(X, L.mat, Phi0, K_arg).T

C7_Witness ==
    /\ h.pc = "ready" /\ h.n_eval = 2 /\ h.K = 3 /\ h.nprod = 3 /\ NCols(X) = 2

\* the results for the times ts, one by one, on the basis poly
SeqResults(phi, K, poly, ts) ==
    [i \in 1..Len(ts) |->
        linear_combination(compute_chebychev_coeff_all(phi, ts[i], K), poly)]

\* C8: for a list or array tau of n values, expm_multiply and the function
\* returned by get_diffusion_fun both return the n results in input order,
\* the i-th being the result for the scalar tau_i on the shared basis.
C8_SequenceResults ==
    /\ (em.pc = "returned" /\ tau.kind \in {"list", "ndarray"}) =>
          em.out = [kind |-> tau.kind,
                    val |-> SeqResults(em.phi, em.K, em.poly, tau.val)]
    /\ (h.pc = "ready" /\ h.n_eval > 0 /\ h.last_tau.kind \in {"list", "ndarray"}) =>
          h.last_out = [kind |-> h.last_tau.kind,
                        val |-> SeqResults(h.phi, h.K, h.poly, h.last_tau.val)]

\* C9: when the entries of X sum to zero and K is not given, so that
\* reverse_bound evaluates get_bound_eta_specific, the call ends with the
\* failed assertion before any basis is computed and returns nothing; with K
\* given the bound is never evaluated and no such error occurs.
C9_DegenerateSignal ==
    /\ (em.pc # "off" /\ MSumRows(X) = RInt(0) /\ K_arg = None
            /\ Handled(tau) /\ tau.val # <<>>) =>
          /\ em.pc \in {"eigsh", "order", "raised"}
          /\ em.pc = "raised" => em.error = "AssertionError"
          /\ em.poly = <<>> /\ em.nprod = 0 /\ em.out.kind = "none"
          /\ "compute_chebychev_pol" \notin Range(em.log)
    /\ (em.pc # "off" /\ K_arg # None) =>
          /\ em.error # "AssertionError"
          /\ "reverse_bound" \notin Range(em.log)

C9_Witness ==
    /\ em.pc = "raised" /\ em.error = "AssertionError" /\ MSumRows(X) = RInt(0)
    /\ K_arg = None /\ em.log = <<"eigsh", "reverse_bound">>

(***************************************************************************)
(* Claims about both paths.                                                *)
(***************************************************************************)
ScalarZero == [kind |-> "scalar", val |-> <<RInt(0)>>]
EmAtZero ==
    (em.pc # "off" /\ tau = ScalarZero /\ K_arg # 0
        /\ ~(K_arg = None /\ MSumRows(X) = RInt(0))) =>
        /\ em.pc # "raised"
        /\ em.pc = "returned" => em.out = [kind |-> "matrix", val |-> X]
ArtAtZero == art.pc # "off" /\ art_in.t = RInt(0) /\ RLt(RInt(0), art_in.toler)
ArtReturnsV == art.pc = "done" /\ art.y = [coef |-> art_in.v, decay |-> RInt(0)]

\* C10: with diffusion time 0, expm_multiply returns X for every order
\* K >= 1, given or selected, and art_expm terminates and returns v for every
\* m >= 1 and toler > 0.
C10_IdentityAtTimeZero ==
    /\ []EmAtZero
    /\ [](ArtAtZero /\ art.pc = "done" => ArtReturnsV)
    /\ (ArtAtZero ~> ArtReturnsV)

(***************************************************************************)
(* Claims about the remaining paths of expm_multiply.                      *)
(***************************************************************************)
\* C11: expm_multiply never completes normally without a result: for a tau
\* whose container type is not handled the call ends with an error, and every
\* normal return carries an approximation result.
C11_NoSwallowedError ==
    /\ (em.pc = "returned") => em.out.kind \in {"matrix", "list", "ndarray"}
    /\ (em.pc \notin {"off", "eigsh", "order"} /\ ~Handled(tau)) => em.pc = "raised"

(***************************************************************************)
(* Claims about art_expm.                                                  *)
(***************************************************************************)
\* the time accepted by the restarts so far: the input t less the remaining t
AcceptedTime == RSub(art_in.t, art.t)

\* C12: when art_expm returns, the vector u of y = V @ (beta*u) is
\* expm(-t_rem*H) @ e1 at the whole remaining time t_rem, so that the time
\* accepted by the restarts plus the time of the final u is the input t.
C12_FullRequestedTime ==
    art.pc = "done" =>
        /\ art.u.s = art.t
        /\ RAdd(AcceptedTime, art.u.s) = art_in.t

\* the call has ended, or its remaining time has left the range the model follows
ArtEnded == art.pc \in {"done", "raised"}
ArtBeyond == art.pc = "while" /\ art.t[2] > MaxDen

\* C13: art_expm returns only from the converged state, with the residual
\* estimate at most toler, and it does not restart forever: every call ends,
\* by a return or by an error.
C13_RestartsAreCapped ==
    /\ [](art.pc = "done" => (art.convergence /\ RLe(art.resnorm, art_in.toler)))
    /\ <>(ArtEnded \/ ArtBeyond)

\* a step of the scan loop that restarts with a partial result
IsRestart == art.pc = "scan" /\ art.k < art.n_tsteps /\ art'.pc = "while"

\* C14: on every restart, the accepted time t_ok taken off the remaining
\* time is non-negative, at most t, and equal to the time to which the
\* accepted partial result u_ok was advanced from e1; the remaining time
\* after the restart is t - t_ok.
C14_RestartBookkeeping ==
    [][IsRestart =>
          LET t_ok == RSub(art.t, art'.t)
          IN  /\ RLe(RInt(0), t_ok)
              /\ RLe(t_ok, art.t)
              /\ t_ok = art'.u_old.s]_vars

\* A @ V[:,j] less its components H[i,j]*V[:,i] for i < j
BeforeDiagonal(j) == (gram_schmidt(RMul(RInt(art_in.A), art.V[j]), art.H, art.V, j, 0)).w

\* C15: after Arnoldi step j, w is orthogonal to every column v_0..v_j built
\* in the pass, v_j included, with the inner product with v_j recorded in
\* H[j,j]; a column appended as v_{j+1} is orthogonal to all of v_0..v_j.
C15_OrthogonalToAllColumns ==
    /\ art.pc = "check" =>
          /\ \A i \in 0..art.j : RMul(art.w, art.V[i]) = RInt(0)
          /\ art.H[<<art.j, art.j>>] = RMul(BeforeDiagonal(art.j), art.V[art.j])
    /\ (art.pc = "arnoldi" /\ art.j >= 1) =>
          \A i \in 0..(art.j - 1) : RMul(art.V[art.j], art.V[i]) = RInt(0)

\* 100, 200, 400, ...: the values n_tsteps takes when started at 100 and doubled
RECURSIVE IsDoubled(_)
IsDoubled(n) == n = 100 \/ (n > 100 /\ n % 2 = 0 /\ IsDoubled(n \div 2))

\* C16: whenever the sub-step search of a restart is left, n_tsteps is 100
\* doubled some number of times, the absolute residual after one sub-step of
\* length t/n_tsteps is at most toler, and expmH is the exponential for the
\* sub-step t/n_tsteps of that final n_tsteps.
C16_SearchPostcondition ==
    (art.pc = "scan" /\ art.k = 0) =>
        LET dt == RDiv(art.t, RInt(art.n_tsteps))
        IN  /\ IsDoubled(art.n_tsteps)
            /\ art.expmH = [dim |-> art.j + 1, dt |-> dt]
            /\ RLe(RAbs(residual([dim |-> art.j + 1, s |-> dt], art.H, art.j)),
                   art_in.toler)

(***************************************************************************)
(* Further claims about reverse_bound.                                     *)
(***************************************************************************)
\* the bracket of the bisection: f(K_min) > err >= f(K_max) with 1 <= K_min < K_max
Bracket ==
    /\ 1 <= rb.K_min /\ rb.K_min < rb.K_max
    /\ f.val[rb.K_max] <= err
    /\ f.val[rb.K_min] > err

\* C17: when reverse_bound does not return at its first test, then for any
\* f, monotone or not, the bracket 1 <= K_min < K_max, f(K_max) <= err,
\* f(K_min) > err holds at the start of the bisection and after each of its
\* iterations, K_max - K_min strictly decreases at each iteration, and the
\* value returned is K = K_max = K_min + 1 with f(K) <= err < f(K-1).
C17_BisectionBracket ==
    /\ [](rb.pc = "step2" => Bracket)
    /\ []((rb.pc = "returned" /\ rb.K_max # 0) =>
              /\ Bracket
              /\ rb.ret = rb.K_max /\ rb.K_max = rb.K_min + 1
              /\ f.val[rb.ret] <= err /\ f.val[rb.ret - 1] > err)
    /\ [][(rb.pc = "step2" /\ rb'.pc = "step2") =>
              rb'.K_max - rb'.K_min < rb.K_max - rb.K_min]_vars

C17_Witness ==
    /\ rb.pc = "returned" /\ rb.ret = 3 /\ rb.evals = {1, 2, 4, 3}
    /\ ~NonIncreasing(f)

Normalises == art.pc = "check" /\ art'.pc = "arnoldi"

\* C19: with toler >= 0 and v # 0, the normalisation V[:,j+1] = w / H[j+1,j]
\* is never executed with H[j+1,j] = 0, since a zero sub-diagonal entry makes
\* the residual estimate 0 <= toler and convergence is declared first, and
\* never for j+1 = m, so that no column of index m or more is written.
C19_NormalisationGuarded ==
    /\ [][Normalises =>
              /\ art.H[<<art.j + 1, art.j>>] # RInt(0)
              /\ art.j + 1 < art_in.m]_vars
    /\ []((art.pc = "check" /\ art.H[<<art.j + 1, art.j>>] = RInt(0)) =>
              (art.resnorm = RInt(0) /\ RLe(art.resnorm, art_in.toler)))
    /\ [](art.pc # "off" => art.V[art_in.m] = RInt(0))

C19_Witness ==
    /\ art.pc = "done" /\ art.j = 1 /\ art.V[1] # RInt(0)
    /\ art.H[<<2, 1>>] = RInt(0) /\ art_in.toler = RInt(0)

====
